---- MODULE Spec2Model ----
(***************************************************************************)
(* A model of the gtin package: the GTIN value type (gtin/__init__.py) and *)
(* the GCP prefix table loader (gtin/gcp/__init__.py).                     *)
(*                                                                         *)
(* Text is a sequence of characters; the characters 0..9 are the decimal   *)
(* digits and every larger character is a non-numeric one.  A Python int   *)
(* is held as a sign and its decimal numeral (no leading zero), so that    *)
(* integers of any size can be represented, and a float as the sign and    *)
(* the numeral of its integer part; None is the empty tuple and a present  *)
(* value x is <<x>>.                                                       *)
(***************************************************************************)
EXTENDS Integers, Sequences, FiniteSets, TLC

VARIABLES args, obj, ret, cache_str, cache_cd, cache_gcp, pl_cache, local_file, fetch,
          loads

vars == <<args, obj, ret, cache_str, cache_cd, cache_gcp, pl_cache, local_file, fetch, loads>>

(***************************************************************************)
(* Bounds of the model.                                                    *)
(***************************************************************************)
\* longest generated input text, in characters
MaxLen == 2

(***************************************************************************)
(* Python values and built-ins.                                            *)
(***************************************************************************)
None == <<>>

Some(x) == <<x>>

Digit == 0..9

\* the character "-" (any character outside \d behaves alike)
Chars == 0..10

IsDigit(c) == c \in Digit

Min(a, b) == IF a < b THEN a ELSE b

\* '0' * k (the empty text when k <= 0)
Zeros(k) == IF k > 0 THEN [i \in 1..k |-> 0] ELSE <<>>

\* s[a:b] for 0 <= a and 0 <= b
Slice(s, a, b) == SubSeq(s, a + 1, Min(b, Len(s)))

\* s[:-1]
DropLast(s) == SubSeq(s, 1, Len(s) - 1)

\* s[-1] of a non-empty s
Last(s) == s[Len(s)]

\* reversed(s)
Reversed(s) == [i \in 1..Len(s) |-> s[Len(s) + 1 - i]]

\* s[::2]
EvenItems(s) == [i \in 1..((Len(s) + 1) \div 2) |-> s[2 * i - 1]]

\* s[1::2]
OddItems(s) == [i \in 1..(Len(s) \div 2) |-> s[2 * i]]

RECURSIVE Sum(_)
Sum(s) == IF s = <<>> THEN 0 ELSE Head(s) + Sum(Tail(s))

\* re.sub(r'[^\d]', '', s)
StripNonDigits(s) == SelectSeq(s, IsDigit)

RECURSIVE StripLeadingZeros(_)
StripLeadingZeros(s) ==
    IF Len(s) > 1 /\ Head(s) = 0 THEN StripLeadingZeros(Tail(s)) ELSE s

\* the numeral of int(s) for a non-empty text s of digits
IntOfText(s) == StripLeadingZeros(s)

RECURSIVE NatToText(_)
\* str(n) of a small natural number n
NatToText(n) == IF n < 10 THEN <<n>> ELSE NatToText(n \div 10) \o <<n % 10>>

\* a str argument
StrArg(s) == [kind |-> "str", neg |-> FALSE, s |-> s]

\* an int argument: sign and numeral
IntArg(neg, s) == [kind |-> "int", neg |-> neg, s |-> s]

\* a float argument: sign and the numeral of its integer part
FloatArg(neg, s) == [kind |-> "float", neg |-> neg, s |-> s]

\* a GTIN instance as argument: its rendered string
GtinArg(s) == [kind |-> "GTIN", neg |-> FALSE, s |-> s]

\* an argument that is neither a str, a Number nor a GTIN (a list)
ListArg == [kind |-> "list", neg |-> FALSE, s |-> <<>>]

\* isinstance(v, Number)
IsNumber(v) == v.kind \in {"int", "float"}

\* abs(int(v)) of a Number argument, as a numeral; int() of a GTIN is
\* int(str(self)) (line 433)
AbsInt(v) == IF v.kind = "GTIN" THEN IntOfText(v.s) ELSE v.s

\* what '%s' prints for an argument (character 10 is the minus sign; the
\* fraction of a float is left out)
Printed(v) == IF IsNumber(v) /\ v.neg THEN <<10>> \o v.s ELSE v.s

(***************************************************************************)
(* GTIN.get_check_digit, on the numeral r of self.raw.                     *)
(***************************************************************************)
WeightedSum(digits) == (Sum(EvenItems(digits)) * 3) + Sum(OddItems(digits))

\* get_check_digit without the final [-1]: 10 is not reduced to its last digit
get_check_digit_unreduced(r) == 10 - (WeightedSum(Reversed(r)) % 10)

get_check_digit(r) ==
    LET digits == Reversed(r)
    IN  Last(NatToText(10 - (WeightedSum(digits) % 10)))

(***************************************************************************)
(* GTIN.__str__, on the instance data d = [raw, length].                   *)
(***************************************************************************)
\* __str__ without the left padding
Render_unpadded(d, cd) == IF d.raw = None THEN Zeros(d.length) ELSE d.raw[1] \o <<cd>>

Render(d, cd) ==
    IF d.raw = None
    THEN Zeros(d.length)
    ELSE LET g == d.raw[1] \o <<cd>>
         IN  Zeros(d.length - Len(g)) \o g

(***************************************************************************)
(* GTIN.__init__.  The arguments a are a record of optional values; the    *)
(* result is the error raised ("none" when the instance is built), the     *)
(* instance data and the fields of the CheckDigitError message.           *)
(***************************************************************************)
DefaultLength == 14

\* text of a str or int component: re.sub for a str, str(abs(int(v))) for a number
Normalized(v) == IF v.kind = "str" THEN StripNonDigits(v.s) ELSE AbsInt(v)

Failure(e) ==
    [err |-> e, length |-> None, raw |-> <<>>, check_digit |-> None, gtin |-> None]

Resolved(length, raw, check_digit, gtin) ==
    [err |-> "none", length |-> length, raw |-> raw,
     check_digit |-> check_digit, gtin |-> gtin]

\* lines 222-241: the full code, with its check digit
ResolveGtin(a) ==
    LET v == a.gtin[1]
    IN  IF v.kind = "str"
        THEN LET gtin == StripNonDigits(v.s)
                 length == IF a.length # None THEN a.length
                           ELSE IF a.check_digit # None THEN Some(Len(gtin) + 1)
                           ELSE Some(Len(gtin))
             IN  IF a.check_digit = None
                 THEN IF DropLast(gtin) = <<>>
                      THEN Failure("ValueError")
                      ELSE Resolved(length, IntOfText(DropLast(gtin)),
                                    Some(StrArg(<<Last(gtin)>>)), Some(gtin))
                 ELSE IF gtin = <<>>
                      THEN Failure("ValueError")
                      ELSE Resolved(length, IntOfText(gtin), a.check_digit, Some(gtin))
        ELSE IF IsNumber(v) \/ v.kind = "GTIN"
        THEN LET g == AbsInt(v)
             IN  IF DropLast(g) = <<>>
                 THEN Failure("ValueError")
                 ELSE Resolved(a.length, IntOfText(DropLast(g)),
                               Some(StrArg(<<Last(g)>>)), Some(Printed(v)))
        ELSE Failure("GTINTypeError")

\* lines 242-253: the code without its check digit
ResolveRaw(a) ==
    LET v == a.raw[1]
    IN  IF v.kind = "str"
        THEN LET raw == StripNonDigits(v.s)
                 length == IF a.length # None THEN a.length ELSE Some(Len(raw) + 1)
             IN  IF raw = <<>>
                 THEN Failure("ValueError")
                 ELSE Resolved(length, IntOfText(raw), a.check_digit, None)
        ELSE IF IsNumber(v) \/ v.kind = "GTIN"
        THEN Resolved(a.length, AbsInt(v), a.check_digit, None)
        ELSE Failure("GTINTypeError")

\* lines 254-323: the components
ResolveComponents(a) ==
    LET indicator_digit == IF a.indicator_digit = None THEN <<0>>
                           ELSE Normalized(a.indicator_digit[1])
        gcp == IF a.gcp = None THEN None ELSE Some(Normalized(a.gcp[1]))
        item_reference == IF a.item_reference = None THEN None
                          ELSE Some(Normalized(a.item_reference[1]))
    IN  IF a.indicator_digit # None /\ a.length # None /\ a.length # Some(DefaultLength)
        THEN Failure("IndicatorDigitError")
        ELSE IF Len(indicator_digit) > 1
        THEN Failure("IndicatorDigitError")
        ELSE IF gcp # None /\ item_reference # None
                /\ Len(gcp[1]) + Len(item_reference[1]) # 12
        THEN Failure("GTINTypeError")
        ELSE IF gcp = None /\ item_reference = None
        THEN Failure("TypeError")
        ELSE LET g == IF gcp = None THEN Zeros(12 - Len(item_reference[1])) ELSE gcp[1]
                 i == IF gcp # None /\ item_reference = None
                      THEN Zeros(12 - Len(gcp[1])) ELSE item_reference[1]
                 text == indicator_digit \o g \o i
             IN  IF text = <<>>
                 THEN Failure("ValueError")
                 ELSE Resolved(a.length, IntOfText(text), a.check_digit, None)

Resolve(a) ==
    IF a.gtin # None THEN ResolveGtin(a)
    ELSE IF a.raw # None THEN ResolveRaw(a)
    ELSE IF a.indicator_digit # None \/ a.gcp # None
            \/ a.item_reference # None \/ a.check_digit # None
    THEN ResolveComponents(a)
    ELSE Resolved(a.length, <<0>>, a.check_digit, None)

\* the comparison of line 332 with == in place of !=
Differs_inverted(check_digit, cd) == check_digit.kind = "str" /\ check_digit.s = <<cd>>

\* check_digit != cd, for the supplied value and the computed one-character str
Differs(check_digit, cd) == ~(check_digit.kind = "str" /\ check_digit.s = <<cd>>)

NoMessage == [code |-> None, digit |-> None, correct |-> None]

\* lines 330-336: the supplied check digit against the computed one, cd
Validate(r, data, cd) ==
    IF r.check_digit # None /\ Differs(r.check_digit[1], cd)
    THEN [err |-> "CheckDigitError", data |-> None,
          msg |-> [code |-> r.gtin,
                   digit |-> Some(Printed(r.check_digit[1])),
                   correct |-> Some(<<cd>>)]]
    ELSE [err |-> "none", data |-> Some(data), msg |-> NoMessage]

\* lines 326-336, on the resolved arguments r
Finish(r) ==
    IF r.err # "none"
    THEN [err |-> r.err, data |-> None, msg |-> NoMessage]
    ELSE Validate(r,
                  [raw |-> Some(r.raw),
                   length |-> IF r.length = None THEN DefaultLength ELSE r.length[1]],
                  get_check_digit(r.raw))

GTIN_init(a) == Finish(Resolve(a))

(***************************************************************************)
(* gtin.gcp.prefixes_lengths.  A reference document is its well-formedness,*)
(* whether its text has runs of line breaks, whether its text is empty and *)
(* the prefix -> gcpLength entries it declares.  The memory m holds the lru_cache of the function  *)
(* (pl), the local copy of the document (file) and the outcome of the     *)
(* fetch made by the running operation (net).                              *)
(***************************************************************************)
\* lines 57-65: runs of line breaks in the fetched text are collapsed
CollapseLineBreaks(doc) == [doc EXCEPT !.blank = FALSE]

\* lines 94-109: ElementTree.fromstring and the dict comprehension
ParseDocument(doc) ==
    IF doc.ok THEN [err |-> "none", pl |-> doc.pl]
    ELSE [err |-> "ParseError", pl |-> <<>>]

\* lines 94-109 and the lru_cache: the parsed document is returned and cached
Loaded(m, parsed) ==
    IF parsed.err # "none"
    THEN [m |-> m, err |-> parsed.err, pl |-> <<>>]
    ELSE [m |-> [m EXCEPT !.pl = Some(parsed.pl)], err |-> "none", pl |-> parsed.pl]

\* lines 79-93: the fetched document (None after a caught failure) against
\* the local copy, which a differing fetched document overwrites
Refresh(m, fetched) ==
    IF fetched = None THEN Loaded(m, ParseDocument(m.file))
    ELSE IF m.file # fetched[1]
    THEN Loaded([m EXCEPT !.file = fetched[1]], ParseDocument(fetched[1]))
    ELSE Loaded(m, ParseDocument(fetched[1]))

prefixes_lengths(m, net) ==
    IF m.pl # None
    THEN [m |-> m, err |-> "none", pl |-> m.pl[1]]
    ELSE IF net.kind = "uncaught"
    THEN [m |-> [m EXCEPT !.net = net], err |-> net.error, pl |-> <<>>]
    ELSE Refresh([m EXCEPT !.net = net],
                 IF net.kind = "ok" THEN Some(CollapseLineBreaks(net.doc)) ELSE None)

(***************************************************************************)
(* The accessors of GTIN, on the instance data d and the memory m, which   *)
(* also holds the lru_cache entries of the instance (str, cd, gcp).  Each  *)
(* returns the memory it leaves, the error raised and the value returned.  *)
(***************************************************************************)
Returned(m, v) == [m |-> m, err |-> "none", val |-> Some(v)]

Raised(m, e) == [m |-> m, err |-> e, val |-> None]

\* lines 373-390; the value is None when raw is None
\* the lru_cache of get_check_digit takes the value v
CachedCheckDigit(m, v) == Returned([m EXCEPT !.cd = Some(v)], v)

check_digit(d, m) ==
    IF m.cd # None THEN Returned(m, m.cd[1])
    ELSE CachedCheckDigit(m, IF d.raw = None THEN None ELSE Some(get_check_digit(d.raw[1])))

\* lines 438-446
\* the lru_cache of __str__ takes the value v
CachedStr(m, v) == Returned([m EXCEPT !.str = Some(v)], v)

\* line 442, with the check digit read as c
StrWith(d, c) == CachedStr(c.m, Render(d, c.val[1][1]))

str(d, m) ==
    IF m.str # None THEN Returned(m, m.str[1])
    ELSE IF d.raw = None THEN CachedStr(m, Zeros(d.length))
    ELSE StrWith(d, check_digit(d, m))

RECURSIVE LongestPrefix(_, _)
\* lines 400-406: the value of the longest key of pl that p starts with
LongestPrefix(p, pl) ==
    IF p = <<>> THEN None
    ELSE IF p \in DOMAIN pl THEN Some(pl[p])
    ELSE LongestPrefix(DropLast(p), pl)

\* lines 392-412
\* lines 397-398: g left-padded with zeros to 14 characters
Padded(g) == IF Len(g) < 14 THEN Zeros(14 - Len(g)) \o g ELSE g

\* the lru_cache of get_gcp takes the value v
CachedGcp(m, v) == Returned([m EXCEPT !.gcp = Some(v)], v)

\* lines 407-412, with the length l found for the padded string g
GcpOfLength(m, g, l) ==
    IF l # None /\ l[1] # 0 THEN CachedGcp(m, Slice(g, 1, 1 + l[1]))
    ELSE Raised(m, "GCPNotFoundError")

\* lines 399-412, with the padded string g and the table pl
GcpOfPadded(m, g, pl) == GcpOfLength(m, g, LongestPrefix(Slice(g, 1, Len(g) - 1), pl))

\* lines 396-412, with the string s read and the table pl
GcpOfStr(s, pl) == GcpOfPadded(s.m, Padded(s.val[1]), pl)

\* lines 395-412, with the table load t
GcpWithTable(d, t) ==
    IF t.err # "none" THEN Raised(t.m, t.err) ELSE GcpOfStr(str(d, t.m), t.pl)

get_gcp(d, m, net) ==
    IF m.gcp # None THEN Returned(m, m.gcp[1])
    ELSE GcpWithTable(d, prefixes_lengths(m, net))

\* lines 418-424
\* str(self)[0], with the string s read
FirstOf(s) ==
    IF s.val[1] = <<>> THEN Raised(s.m, "IndexError")
    ELSE Returned(s.m, <<Head(s.val[1])>>)

indicator_digit(d, m) == FirstOf(str(d, m))

\* lines 426-430
\* str(self)[len(self.gcp)+1:-1], with the string s and the GCP g read
Between(s, g) ==
    IF g.err # "none" THEN g
    ELSE Returned(g.m, Slice(s.val[1], Len(g.val[1]) + 1, Len(s.val[1]) - 1))

\* line 428 before line 429: the string is read, then the GCP
ItemReferenceOf(d, s, net) == Between(s, get_gcp(d, s.m, net))

item_reference(d, m, net) == ItemReferenceOf(d, str(d, m), net)

\* lines 459-463, consumed to the end as tuple(self) does
\* line 463, after the first three items
YieldCheckDigit(i, g, r, c) == Returned(c.m, <<i.val[1], g.val[1], r.val[1], c.val[1]>>)

\* line 462, after the first two items
YieldItemReference(d, i, g, r) ==
    IF r.err # "none" THEN r ELSE YieldCheckDigit(i, g, r, check_digit(d, r.m))

\* line 461, after the first item
YieldGcp(d, i, g, net) ==
    IF g.err # "none" THEN g ELSE YieldItemReference(d, i, g, item_reference(d, g.m, net))

\* line 460
YieldIndicatorDigit(d, i, net) ==
    IF i.err # "none" THEN i ELSE YieldGcp(d, i, get_gcp(d, i.m, net), net)

iter(d, m, net) == YieldIndicatorDigit(d, indicator_digit(d, m), net)

(***************************************************************************)
(* Comparison and hashing of instances.  GTIN defines no __eq__, so that   *)
(* == is that of object: two operands are equal when they are the same     *)
(* object.                                                                 *)
(***************************************************************************)
\* object.__eq__, on the identities of the operands
object_eq(i, j) == i = j

\* line 449: self.raw or 0, as a numeral
hash(d) == IF d.raw = None THEN <<0>> ELSE d.raw[1]

(***************************************************************************)
(* The setters of GTIN, on the instance data d and the memory m: each      *)
(* returns the data and the memory it leaves and the error raised.         *)
(***************************************************************************)
Assigned(d, m, e) == [d |-> d, m |-> m, err |-> e]

\* abs(int(l)) of a small integer l
AbsVal(l) == IF l < 0 THEN 0 - l ELSE l

\* lines 345-348
length_setter(d, m, l) ==
    Assigned([d EXCEPT !.length = AbsVal(l)], [m EXCEPT !.str = None], "none")

\* lines 370-371 for the digits v of a str value, after the length is set
RawOfText(a, v) ==
    IF v = <<>> THEN Assigned(a.d, a.m, "ValueError")
    ELSE Assigned([a.d EXCEPT !.raw = Some(IntOfText(v))], a.m, "none")

\* lines 359-371, with the three caches cleared
RawCleared(d, m, value) ==
    IF value = None THEN Assigned([d EXCEPT !.raw = None], m, "none")
    ELSE IF value[1].kind = "str"
    THEN RawOfText(length_setter(d, m, Len(StripNonDigits(value[1].s)) + 1),
                   StripNonDigits(value[1].s))
    ELSE Assigned([d EXCEPT !.raw = Some(AbsInt(value[1]))], m, "none")

\* lines 354-371
raw_setter(d, m, value) ==
    RawCleared(d, [m EXCEPT !.str = None, !.cd = None, !.gcp = None], value)

(***************************************************************************)
(* The functions calculate_check_digit, has_valid_check_digit and          *)
(* validate_check_digit, which the tests and the command line import from  *)
(* the package: specified in section 4.1 of the specification.             *)
(***************************************************************************)
\* the decimal digits of a non-negative integer or of a numeric string
DigitsOf(v) == v.s

RECURSIVE SumFromRight(_, _)
\* the sum of the digits of x at the positions p, p + 2, ... from the right
SumFromRight(x, p) ==
    IF p >= Len(x) THEN 0 ELSE x[Len(x) - p] + SumFromRight(x, p + 2)

calculate_check_digit(x) ==
    IF x = <<>> THEN Raised(<<>>, "ValueError")
    ELSE Returned(<<>>, (10 - (((3 * SumFromRight(x, 0)) + SumFromRight(x, 1)) % 10)) % 10)

\* the last digit of code against the calculated check digit c
Matches(code, c) ==
    IF c.err # "none" THEN c ELSE Returned(<<>>, Last(code) = c.val[1])

has_valid_check_digit(code) == Matches(code, calculate_check_digit(DropLast(code)))

\* the error of validate_check_digit, carrying the code and the correct digit
Checked(code, c) ==
    IF c.err # "none" THEN Raised(NoMessage, c.err)
    ELSE IF Last(code) = c.val[1] THEN Returned(NoMessage, <<>>)
    ELSE Raised([code |-> Some(code), digit |-> Some(<<Last(code)>>),
                 correct |-> Some(<<c.val[1]>>)], "CheckDigitError")

validate_check_digit(code) == Checked(code, calculate_check_digit(DropLast(code)))

(***************************************************************************)
(* The inputs of the model.                                                *)
(***************************************************************************)
\* the texts of 1..n digits
Texts(n) == UNION {[1..k -> Digit] : k \in 1..n}

\* the numerals of the integers of at most n digits
Numerals(n) == {s \in Texts(n) : Len(s) = 1 \/ s[1] # 0}

\* a text with a non-numeric character after its first character
Punctuated(s) == <<Head(s), 10>> \o Tail(s)

\* codes and raw codes of the examples of the class documentation and tests
LongTexts ==
    { <<0,4,0,0,0,1,0,1,6,1,3,6,0,0>>, <<0,1,2,3,4,5,6,7,8,9,0,1,2>>,
      <<0,0,3,3,2,1,0,0,0,0,0,0,0,1>>, <<0,2,3,4,5,6,7,8,9,0,1,2,8,9>>,
      <<0,2,3,4,5,6,7,8,9,0,1,2,8,1>>, <<0,1,3,4,5,6,7,8,9,0,1,2,8,0>>,
      <<0,1,2,3,4,5,6,7,8,9,0>>, <<0,1,2,3,4,5,6,7,8,9,0,5>>,
      <<0,1,2,3,4,5,6>>, <<0,1,2,3,4,5,6,5>>, <<8,9,0,1,2,3,4,5,6,7,8,9>>,
      <<4,0,0,6,3,8,1,3,3,3,9,3,1>>, <<4,0,0,6,3,8,1,3,3,3,9,3,5>> }

StrValues ==
    {StrArg(s) : s \in Texts(MaxLen) \cup LongTexts}
        \cup {StrArg(Punctuated(s)) : s \in Texts(2)}
        \cup {StrArg(<<>>), StrArg(<<10>>)}

IntValues ==
    {IntArg(FALSE, s) : s \in Numerals(MaxLen) \cup {StripLeadingZeros(t) : t \in LongTexts}}
        \cup {IntArg(TRUE, s) : s \in Numerals(1) \ {<<0>>}}

Values == StrValues \cup IntValues

Lengths == {None, Some(2), Some(8), Some(14)}

\* a digit with a non-numeric character before it
PunctuatedDigits == {StrArg(<<10, c>>) : c \in Digit}

CheckDigits ==
    {StrArg(<<c>>) : c \in Digit} \cup {IntArg(FALSE, <<c>>) : c \in Digit}
        \cup PunctuatedDigits

NoArgs ==
    [gtin |-> None, length |-> None, raw |-> None, indicator_digit |-> None,
     gcp |-> None, item_reference |-> None, check_digit |-> None]

\* the components of "04000101613600", each given or not, with or without a
\* check digit
ComponentCalls ==
    {[NoArgs EXCEPT !.indicator_digit = i, !.gcp = g, !.item_reference = r,
                    !.check_digit = c, !.length = l] :
        i \in {None, Some(StrArg(<<1>>))},
        g \in {None, Some(StrArg(<<4,0,0,0,1,0,1>>))},
        r \in {None, Some(StrArg(<<6,1,3,6,0>>))},
        c \in {None} \cup {Some(StrArg(<<k>>)) : k \in Digit},
        l \in {None, Some(DefaultLength)}} \ {NoArgs, [NoArgs EXCEPT !.length = Some(DefaultLength)]}

\* calls that supply more than one of gtin, raw and the components
MixedCalls ==
    { [NoArgs EXCEPT !.gtin = Some(StrArg(<<0,4,0,0,0,1,0,1,6,1,3,6,0,0>>)),
                     !.raw = Some(StrArg(<<0,1,2,3,4,5,6,7,8,9,0,1,2>>))],
      [NoArgs EXCEPT !.raw = Some(StrArg(<<0,1,2,3,4,5,6,7,8,9,0,1,2>>)),
                     !.gcp = Some(StrArg(<<4,0,0,0,1,0,1>>))],
      [NoArgs EXCEPT !.gtin = Some(StrArg(<<0,4,0,0,0,1,0,1,6,1,3,6,0,0>>)),
                     !.item_reference = Some(StrArg(<<6,1,3,6,0>>))] }

\* calls with a float, or with a value of another type, for gtin or raw
TypedCalls ==
    {[NoArgs EXCEPT !.raw = Some(v)] :
        v \in {FloatArg(FALSE, <<1,2,3,4,5,6,7,8,9,0,1,2>>), FloatArg(TRUE, <<1,2>>), ListArg}}
    \cup {[NoArgs EXCEPT !.gtin = Some(v)] :
        v \in {FloatArg(FALSE, <<1,2,3,4,5,6,7,8,9,0,1,2,8>>), FloatArg(FALSE, <<5>>), ListArg}}

\* the components of "04000101613600" with every kind of indicator digit
\* and of length
IndicatorCalls ==
    {[NoArgs EXCEPT !.indicator_digit = i, !.gcp = Some(StrArg(<<4,0,0,0,1,0,1>>)),
                    !.item_reference = Some(StrArg(<<6,1,3,6,0>>)), !.length = l] :
        i \in {None, Some(StrArg(<<0>>)), Some(StrArg(<<1>>)), Some(IntArg(FALSE, <<0>>)),
               Some(IntArg(FALSE, <<9>>)), Some(StrArg(<<1, 2>>)), Some(StrArg(<<>>))},
        l \in {None, Some(DefaultLength), Some(13), Some(8)}}

\* a gcp or an item reference of 0 to 14 characters, alone or together
PartCalls ==
    {[NoArgs EXCEPT !.gcp = Some(StrArg(SubSeq(<<4,0,0,0,1,0,1,0,0,0,0,0,0,1>>, 1, n)))] :
        n \in 0..14}
    \cup {[NoArgs EXCEPT !.item_reference = Some(StrArg(SubSeq(<<1,2,3,4,5,6,7,8,9,0,1,2,3,4>>, 1, n)))] :
        n \in 0..14}
    \cup {[NoArgs EXCEPT !.gcp = Some(StrArg(SubSeq(<<4,0,0,0,1,0,1>>, 1, n))),
                         !.item_reference = Some(StrArg(SubSeq(<<6,1,3,6,0,7>>, 1, k)))] :
        n \in 6..7, k \in 4..6}

\* values short enough to be combined with every check_digit argument
ShortValues == {v \in Values : Len(v.s) <= 2}

\* the values combined with every explicit length: the short ones and the
\* codes of the documentation and tests
SizedValues ==
    ShortValues \cup {StrArg(s) : s \in LongTexts}
        \cup {IntArg(FALSE, StripLeadingZeros(t)) : t \in LongTexts}

Calls ==
    {[NoArgs EXCEPT !.gtin = Some(v)] : v \in Values}
        \cup {[NoArgs EXCEPT !.raw = Some(v)] : v \in Values}
        \cup {[NoArgs EXCEPT !.gtin = Some(v), !.length = l] : v \in SizedValues, l \in Lengths}
        \cup {[NoArgs EXCEPT !.raw = Some(v), !.length = l] : v \in SizedValues, l \in Lengths}
        \cup {[NoArgs EXCEPT !.gtin = Some(v), !.check_digit = Some(c)] :
                  v \in ShortValues, c \in CheckDigits}
        \cup {[NoArgs EXCEPT !.raw = Some(v), !.check_digit = Some(c)] :
                  v \in ShortValues, c \in CheckDigits}
        \cup {[NoArgs EXCEPT !.length = l] : l \in Lengths}
        \cup ComponentCalls
        \cup MixedCalls
        \cup TypedCalls
        \cup IndicatorCalls
        \cup PartCalls

\* the reference documents: the local copy shipped with the package and
\* what the remote source may serve
LocalDocument ==
    [ok |-> TRUE, blank |-> FALSE, empty |-> FALSE,
     pl |-> (Zeros(9) :> 10) @@ ((Zeros(9) \o <<1>>) :> 11) @@ ((Zeros(9) \o <<2>>) :> 0)
            @@ ((Zeros(9) \o <<1, 2>>) :> 0) @@ (<<0, 3, 3, 2, 1>> :> 6) @@ (<<0, 3, 3>> :> 7)
            @@ (<<2>> :> 0) @@ (<<0, 2>> :> 0) @@ (<<4, 0, 0>> :> 7) @@ (<<0, 0, 1>> :> 7)]

RemoteDocuments ==
    { [LocalDocument EXCEPT !.blank = TRUE],
      [ok |-> TRUE, blank |-> TRUE, empty |-> FALSE,
       pl |-> ((Zeros(10) \o <<3>>) :> 12) @@ (<<0, 3, 3, 2, 1, 0>> :> 8) @@ (<<0, 3>> :> 9)],
      [ok |-> FALSE, blank |-> TRUE, empty |-> FALSE, pl |-> <<>>] }

\* no fetch is made
NoFetch == [kind |-> "unused", error |-> "none", doc |-> LocalDocument]

\* urlopen and read: a document, an error that line 66 catches, or an error
\* that it does not catch (a connection reset while the response is read)
NetOutcomes ==
    {[kind |-> "ok", error |-> "none", doc |-> r] : r \in RemoteDocuments}
        \cup {[kind |-> "caught", error |-> e, doc |-> LocalDocument] :
                  e \in {"HTTPError", "URLError", "TimeoutError"}}
        \cup {[kind |-> "uncaught", error |-> "ConnectionResetError", doc |-> LocalDocument]}

(***************************************************************************)
(* The state machine: a caller builds a GTIN and reads its accessors.      *)
(***************************************************************************)
Memory ==
    [str |-> cache_str, cd |-> cache_cd, gcp |-> cache_gcp,
     pl |-> pl_cache, file |-> local_file, net |-> NoFetch]

Remember(m) ==
    /\ cache_str' = m.str
    /\ cache_cd' = m.cd
    /\ cache_gcp' = m.gcp
    /\ pl_cache' = m.pl
    /\ local_file' = m.file
    /\ fetch' = m.net

\* the concurrent calls of prefixes_lengths
Loaders == {1, 2}

\* a call of prefixes_lengths: where it stands, the document fetched (line
\* 51), the local copy read (line 79) and the error it ended with
Load(pc, fetched, local, err) ==
    [pc |-> pc, fetched |-> fetched, local |-> local, err |-> err]

NotStarted == Load("fetch", None, None, "none")

Result(op, err, val, msg) == [op |-> op, err |-> err, val |-> val, msg |-> msg]

Init ==
    /\ args = NoArgs
    /\ obj = None
    /\ ret = Result("start", "none", None, NoMessage)
    /\ cache_str = None
    /\ cache_cd = None
    /\ cache_gcp = None
    /\ pl_cache = None
    /\ local_file = LocalDocument
    /\ fetch = NoFetch
    /\ loads = [p \in Loaders |-> NotStarted]

\* the call GTIN(**a) ends as r: an instance or an error
Built(a, r) ==
    /\ args' = a
    /\ obj' = r.data
    /\ ret' = Result("init", r.err, None, r.msg)

\* GTIN(**a)
Construct ==
    /\ ret.op = "start"
    /\ \E a \in Calls : Built(a, GTIN_init(a))
    /\ UNCHANGED <<cache_str, cache_cd, cache_gcp, pl_cache, local_file, fetch, loads>>

Access(op, r) ==
    /\ ret' = Result(op, r.err, r.val, NoMessage)
    /\ Remember(r.m)
    /\ UNCHANGED <<args, obj, loads>>

\* len(g)
ReadLen == obj # None /\ Access("len", Returned(Memory, obj[1].length))

\* str(g)
ReadStr == obj # None /\ Access("str", str(obj[1], Memory))

\* g.check_digit
ReadCheckDigit == obj # None /\ Access("check_digit", check_digit(obj[1], Memory))

\* the outcomes of the fetch, when reading the GCP has to load the table
Fetches ==
    IF cache_gcp = None /\ pl_cache = None THEN NetOutcomes
    ELSE {NoFetch}

\* g.gcp
ReadGcp == obj # None /\ \E net \in Fetches : Access("gcp", get_gcp(obj[1], Memory, net))

\* g.indicator_digit
ReadIndicatorDigit == obj # None /\ Access("indicator_digit", indicator_digit(obj[1], Memory))

\* g.item_reference
ReadItemReference ==
    obj # None /\ \E net \in Fetches :
        Access("item_reference", item_reference(obj[1], Memory, net))

\* tuple(g)
ReadTuple == obj # None /\ \E net \in Fetches : Access("tuple", iter(obj[1], Memory, net))

\* the numeric strings and non-negative integers
Numeric == {v \in Values : ~v.neg /\ \A i \in 1..Len(v.s) : IsDigit(v.s[i])}

\* the call op(a) of a function of the package ends as r
Called(op, a, r, msg) ==
    /\ args' = a
    /\ ret' = Result(op, r.err, r.val, msg)

\* validate_check_digit(a.gtin) ends as r, whose error carries a message
Validated(a, r) == Called("validate_check_digit", a, r, r.m)

\* calculate_check_digit(v)
CalculateCheckDigit ==
    /\ ret.op = "start"
    /\ \E v \in Numeric :
          Called("calculate_check_digit", [NoArgs EXCEPT !.raw = Some(v)], calculate_check_digit(DigitsOf(v)), NoMessage)
    /\ UNCHANGED <<obj, cache_str, cache_cd, cache_gcp, pl_cache, local_file, fetch, loads>>

\* has_valid_check_digit(v)
HasValidCheckDigit ==
    /\ ret.op = "start"
    /\ \E v \in Numeric :
          Called("has_valid_check_digit", [NoArgs EXCEPT !.gtin = Some(v)], has_valid_check_digit(DigitsOf(v)), NoMessage)
    /\ UNCHANGED <<obj, cache_str, cache_cd, cache_gcp, pl_cache, local_file, fetch, loads>>

\* validate_check_digit(v)
ValidateCheckDigit ==
    /\ ret.op = "start"
    /\ \E v \in Numeric :
          Validated([NoArgs EXCEPT !.gtin = Some(v)], validate_check_digit(DigitsOf(v)))
    /\ UNCHANGED <<obj, cache_str, cache_cd, cache_gcp, pl_cache, local_file, fetch, loads>>

Next ==
    \/ Construct
    \/ CalculateCheckDigit
    \/ HasValidCheckDigit
    \/ ValidateCheckDigit
    \/ ReadLen
    \/ ReadStr
    \/ ReadCheckDigit
    \/ ReadGcp
    \/ ReadIndicatorDigit
    \/ ReadItemReference
    \/ ReadTuple

Spec == Init /\ [][Next]_vars

(***************************************************************************)
(* Concurrent loads of the prefix table: every call of prefixes_lengths    *)
(* runs line by line against the one local copy, and may be interrupted    *)
(* between opening the local copy for writing and writing it.              *)
(***************************************************************************)
\* the text of a file just opened with mode 'w'
Truncated == [ok |-> FALSE, blank |-> FALSE, empty |-> TRUE, pl |-> <<>>]

\* call p moves to the step l, the rest of the state but the file and the
\* lru_cache of prefixes_lengths left alone
Step(p, l) ==
    /\ loads' = [loads EXCEPT ![p] = l]
    /\ UNCHANGED <<args, obj, ret, cache_str, cache_cd, cache_gcp, fetch>>

\* lines 50-78: the fetch ends as net
Fetched(p, net) ==
    IF net.kind = "uncaught" THEN Step(p, Load("raised", None, None, net.error))
    ELSE Step(p, Load("read",
                      IF net.kind = "ok" THEN Some(CollapseLineBreaks(net.doc)) ELSE None,
                      None, "none"))

Fetch(p) ==
    /\ loads[p].pc = "fetch"
    /\ \E net \in NetOutcomes : Fetched(p, net)
    /\ UNCHANGED <<pl_cache, local_file>>

\* lines 79-91: the local copy is read and compared with the fetched document
ReadLocal(p) ==
    /\ loads[p].pc = "read"
    /\ Step(p, IF loads[p].fetched = None
               THEN Load("parse", Some(local_file), Some(local_file), "none")
               ELSE IF local_file # loads[p].fetched[1]
               THEN Load("open", loads[p].fetched, Some(local_file), "none")
               ELSE Load("parse", loads[p].fetched, Some(local_file), "none"))
    /\ UNCHANGED <<pl_cache, local_file>>

\* line 92: open(..., mode='w') truncates the local copy
OpenLocal(p) ==
    /\ loads[p].pc = "open"
    /\ local_file' = Truncated
    /\ Step(p, [loads[p] EXCEPT !.pc = "write"])
    /\ UNCHANGED pl_cache

\* line 93 and the end of the with block: the fetched text is written
WriteLocal(p) ==
    /\ loads[p].pc = "write"
    /\ local_file' = loads[p].fetched[1]
    /\ Step(p, [loads[p] EXCEPT !.pc = "parse"])
    /\ UNCHANGED pl_cache

\* the call is interrupted between line 92 and line 93
Interrupted(p) ==
    /\ loads[p].pc = "write"
    /\ Step(p, [loads[p] EXCEPT !.pc = "raised", !.err = "KeyboardInterrupt"])
    /\ UNCHANGED <<pl_cache, local_file>>

\* lines 94-109, with the parsed document
Parsed(p, parsed) ==
    /\ Step(p, [loads[p] EXCEPT !.pc = IF parsed.err = "none" THEN "done" ELSE "raised",
                                !.err = parsed.err])
    /\ pl_cache' = IF parsed.err = "none" THEN Some(parsed.pl) ELSE pl_cache

Parse(p) ==
    /\ loads[p].pc = "parse"
    /\ Parsed(p, ParseDocument(loads[p].fetched[1]))
    /\ UNCHANGED local_file

LoadNext ==
    \E p \in Loaders :
        \/ Fetch(p)
        \/ ReadLocal(p)
        \/ OpenLocal(p)
        \/ WriteLocal(p)
        \/ Interrupted(p)
        \/ Parse(p)

LoadSpec == Init /\ [][LoadNext]_vars

(***************************************************************************)
(* A caller that keeps one of a few instances, assigns to it and reads it. *)
(***************************************************************************)
\* the instances kept: codes of the class documentation and of the tests
Instances ==
    { [NoArgs EXCEPT !.gtin = Some(StrArg(<<0,4,0,0,0,1,0,1,6,1,3,6,0,0>>))],
      [NoArgs EXCEPT !.gtin = Some(StrArg(<<0,0,3,3,2,1,0,0,0,0,0,0,0,1>>))],
      [NoArgs EXCEPT !.gtin = Some(StrArg(<<0,1,2,3,4,5,6,5>>))],
      [NoArgs EXCEPT !.gtin = Some(StrArg(<<0,0,0,0,0,0,0,1,2,3,4,5,6,5>>))],
      [NoArgs EXCEPT !.gtin = Some(StrArg(<<0,1,2,3,4,5,6,7,8,9,0,5>>))],
      [NoArgs EXCEPT !.gtin = Some(StrArg(<<4,0,0,6,3,8,1,3,3,3,9,3,1>>))],
      [NoArgs EXCEPT !.raw = Some(StrArg(<<0,1,2,3,4,5,6,7,8,9,0,1,2>>))],
      [NoArgs EXCEPT !.raw = Some(IntArg(FALSE, <<1,2,3,4,5,6>>)), !.length = Some(8)],
      NoArgs }

\* the values assigned to length and to raw
NewLengths == {8, 14, 16}

NewRaws ==
    {None, Some(StrArg(<<0,1,2,3,4,5,6,7,8,9,0,1,2>>)), Some(StrArg(<<10>>)),
     Some(IntArg(FALSE, <<1,2,3,4>>)), Some(IntArg(TRUE, <<4,0,0,0,1,0,1,6,1,3,6,0>>))}

\* GTIN(**a), for one of the instances kept
Keep ==
    /\ ret.op = "start"
    /\ \E a \in Instances : Built(a, GTIN_init(a))
    /\ UNCHANGED <<cache_str, cache_cd, cache_gcp, pl_cache, local_file, fetch, loads>>

\* the assignment op ends as r
Assign(op, r) ==
    /\ obj' = Some(r.d)
    /\ ret' = Result(op, r.err, None, NoMessage)
    /\ Remember(r.m)
    /\ UNCHANGED <<args, loads>>

\* g.length = l
SetLength == obj # None /\ \E l \in NewLengths : Assign("set_length", length_setter(obj[1], Memory, l))

\* g.raw = v
SetRaw == obj # None /\ \E v \in NewRaws : Assign("set_raw", raw_setter(obj[1], Memory, v))

\* the memory of an instance just built
Fresh == [Memory EXCEPT !.str = None, !.cd = None, !.gcp = None]

\* the operands that g is compared with: itself and other instances
Operands ==
    {[id |-> "g", d |-> obj[1]]}
        \cup {[id |-> "h", d |-> GTIN_init(a).data[1]] : a \in Instances}

\* g == h, hash(g), hash(h), str(g) and str(h), with the strings read
Compared(h, gs, hs) ==
    Access("eq", Returned(gs.m, [equal |-> object_eq("g", h.id),
                                  hash |-> <<hash(obj[1]), hash(h.d)>>,
                                  str |-> <<gs.val[1], hs.val[1]>>,
                                  len |-> <<obj[1].length, h.d.length>>]))

Compare ==
    /\ obj # None
    /\ \E h \in Operands : Compared(h, str(obj[1], Memory), str(h.d, Fresh))

\* the new instance (or the error) of GTIN(g), as its string and length
CopyOf(m, r) ==
    IF r.err # "none" THEN Raised(m, r.err)
    ELSE Returned(m, [str |-> Render(r.data[1], get_check_digit(r.data[1].raw[1])),
                      length |-> r.data[1].length])

\* GTIN(g), which reads str(g) for int(g)
Copied(gs) ==
    Access("copy", CopyOf(gs.m, GTIN_init([NoArgs EXCEPT !.gtin = Some(GtinArg(gs.val[1]))])))

Copy == obj # None /\ Copied(str(obj[1], Memory))

UseNext ==
    \/ Keep
    \/ Copy
    \/ Compare
    \/ SetLength
    \/ SetRaw
    \/ ReadLen
    \/ ReadStr
    \/ ReadCheckDigit
    \/ ReadGcp

UseSpec == Init /\ [][UseNext]_vars

(***************************************************************************)
(* Properties.                                                             *)
(***************************************************************************)
\* v is a non-empty string of digits or a non-negative integer
IsNumeric(v) == v.s # <<>> /\ ~v.neg /\ \A i \in 1..Len(v.s) : IsDigit(v.s[i])

\* the mod-10 check digit of the digit string x, by positions from the right
ModTenDigit(x) ==
    LET weighted == (3 * SumFromRight(x, 0)) + SumFromRight(x, 1)
    IN  (10 - (weighted % 10)) % 10

\* C1: for a non-empty digit string or non-negative integer X, the check
\* digit of GTIN(raw=X) is (10 - ((3 * sum of the digits at even positions
\* from the right + sum of the digits at odd positions) mod 10)) mod 10,
\* hence 0 when the weighted sum is a multiple of 10.
C1_CheckDigitFormula ==
    (ret.op = "check_digit" /\ args.gtin = None /\ args.raw # None /\ IsNumeric(args.raw[1]))
        => LET x == args.raw[1].s
               weighted == (3 * SumFromRight(x, 0)) + SumFromRight(x, 1)
           IN  /\ ret.err = "none"
               /\ ret.val = Some(Some((10 - (weighted % 10)) % 10))
               /\ (weighted % 10 = 0 => ret.val = Some(Some(0)))

\* the check digit of the raw string "890123456789", whose weighted sum is a
\* multiple of 10, has been read
C1_Witness ==
    /\ ret.op = "check_digit"
    /\ args.raw = Some(StrArg(<<8,9,0,1,2,3,4,5,6,7,8,9>>))
    /\ ret.val = Some(Some(0))

\* the code is the digits of an integer followed by one more digit
IsIntegerCode(v) ==
    /\ ~v.neg
    /\ Len(v.s) >= 2
    /\ \A i \in 1..Len(v.s) : IsDigit(v.s[i])
    /\ (Len(v.s) = 2 \/ v.s[1] # 0)

\* C2: the digits of a non-negative integer n followed by
\* calculate_check_digit(n) pass validate_check_digit and
\* has_valid_check_digit and build a GTIN without CheckDigitError; followed
\* by any other digit they are reported invalid by all three.
C2_AppendedDigitValidates ==
    (args.gtin # None /\ args.check_digit = None /\ IsIntegerCode(args.gtin[1]))
        => LET code == args.gtin[1].s
               c == calculate_check_digit(DropLast(code)).val[1]
           IN  /\ ret.op = "validate_check_digit"
                     => (ret.err = IF Last(code) = c THEN "none" ELSE "CheckDigitError")
               /\ ret.op = "has_valid_check_digit"
                     => (ret.err = "none" /\ ret.val = Some(Last(code) = c))
               /\ ret.op = "init"
                     => (ret.err = IF Last(code) = c THEN "none" ELSE "CheckDigitError")

\* the digits that the arguments a give without the check digit: all but the
\* last of a full code, the raw code, or indicator digit + gcp + item reference
\* with the missing one of the two filled with zeros
RawDigitsOf(a) ==
    IF a.gtin # None THEN DropLast(StripNonDigits(a.gtin[1].s))
    ELSE IF a.raw # None THEN StripNonDigits(a.raw[1].s)
    ELSE (IF a.indicator_digit = None THEN <<0>> ELSE a.indicator_digit[1].s)
         \o (IF a.gcp = None THEN Zeros(12 - Len(a.item_reference[1].s)) ELSE a.gcp[1].s)
         \o (IF a.item_reference = None THEN Zeros(12 - Len(a.gcp[1].s))
             ELSE a.item_reference[1].s)

\* the check digits that the arguments a embed or supply
GivenDigits(a) ==
    (IF a.gtin # None THEN {<<Last(StripNonDigits(a.gtin[1].s))>>} ELSE {})
        \cup (IF a.check_digit # None THEN {a.check_digit[1].s} ELSE {})

\* a full code alone, a full-code number or a raw code with a check digit, or
\* components of which the gcp or the item reference is given
GivesCheckDigit(a) ==
    \/ a.gtin # None /\ ~a.gtin[1].neg /\ Len(StripNonDigits(a.gtin[1].s)) >= 2
          /\ (a.check_digit = None \/ a.gtin[1].kind = "int")
    \/ a.gtin = None /\ a.raw # None /\ a.check_digit # None
          /\ ~a.raw[1].neg /\ StripNonDigits(a.raw[1].s) # <<>>
    \/ a.gtin = None /\ a.raw = None /\ a.check_digit # None
          /\ (a.gcp # None \/ a.item_reference # None)

\* C3 (as claimed): whenever a check digit embedded in the full code or
\* supplied as check_digit differs from the one recomputed from the raw
\* digits, construction fails with CheckDigitError, no GTIN is produced and
\* the error names the invalid code and the correct digit, in every mode.
C3_MismatchAlwaysRejected ==
    (ret.op = "init" /\ GivesCheckDigit(args)
       /\ \E c \in GivenDigits(args) : c # <<ModTenDigit(RawDigitsOf(args))>>)
        => /\ ret.err = "CheckDigitError"
           /\ obj = None
           /\ ret.msg.code # None
           /\ ret.msg.correct = Some(<<ModTenDigit(RawDigitsOf(args))>>)

\* the code "4006381333931" (400638133393 and its check digit 1) has been
\* accepted by the constructor
C2_Witness ==
    /\ ret.op = "init"
    /\ args.gtin = Some(StrArg(<<4,0,0,6,3,8,1,3,3,3,9,3,1>>))
    /\ calculate_check_digit(<<4,0,0,6,3,8,1,3,3,3,9,3>>).val = Some(1)
    /\ ret.err = "none"

\* s is a string of digits whose last digit is the check digit of the others
IsValidCode(s) ==
    /\ Len(s) >= 2
    /\ \A i \in 1..Len(s) : IsDigit(s[i])
    /\ Last(s) = ModTenDigit(DropLast(s))

\* C4: for a string s of digits whose last digit is the correct check digit
\* of the preceding ones, GTIN(gtin=s) is built and str() of it is s, with
\* its leading zeros and its length.
C4_RoundTrip ==
    (/\ args.gtin # None
     /\ args = [NoArgs EXCEPT !.gtin = args.gtin]
     /\ args.gtin[1].kind = "str"
     /\ IsValidCode(args.gtin[1].s))
        => /\ ret.op = "init" => (ret.err = "none" /\ obj # None)
           /\ ret.op = "str" => (ret.err = "none" /\ ret.val = Some(args.gtin[1].s))
           /\ ret.op = "len" => ret.val = Some(Len(args.gtin[1].s))

\* C5 (as claimed): GTIN(raw=X) for a string X of n digits has length n + 1
\* and renders as X followed by its check digit; with an explicit length L,
\* or for an integer X (length 14 when none is given), the digits of X and
\* the check digit are left-padded with zeros to exactly L characters.
C5_RawRendering ==
    (ret.op = "str" /\ args.raw # None /\ args.gtin = None /\ args.check_digit = None
       /\ IsNumeric(args.raw[1]))
        => LET x == args.raw[1].s
               code == x \o <<ModTenDigit(x)>>
               l == IF args.length # None THEN args.length[1]
                    ELSE IF args.raw[1].kind = "str" THEN Len(x) + 1 ELSE DefaultLength
           IN  /\ obj[1].length = l
               /\ Len(ret.val[1]) = l
               /\ StripLeadingZeros(ret.val[1]) = StripLeadingZeros(code)

\* C10 (as claimed): the rendered string of every constructed GTIN has
\* exactly `length` characters, also when the explicit length is smaller
\* than the number of digits of the code with its check digit.
C10_RenderedLength ==
    (ret.op = "str" /\ ret.err = "none") => Len(ret.val[1]) = obj[1].length

\* str() of the GTIN built from "04000101613600" has been read
C4_Witness ==
    /\ ret.op = "str"
    /\ args = [NoArgs EXCEPT !.gtin = Some(StrArg(<<0,4,0,0,0,1,0,1,6,1,3,6,0,0>>))]
    /\ ret.val = Some(<<0,4,0,0,0,1,0,1,6,1,3,6,0,0>>)

\* the 14-character zero-padded rendering of the instance
Rendering14 == Zeros(14 - Len(cache_str[1])) \o cache_str[1]

\* the keys of the loaded table that the positions 1..12 of the rendering start with
MatchingKeys ==
    {k \in DOMAIN pl_cache[1] :
        Len(k) >= 1 /\ Len(k) <= 12 /\ SubSeq(Rendering14, 2, Len(k) + 1) = k}

\* the longest of them
LongestKey == CHOOSE k \in MatchingKeys : \A j \in MatchingKeys : Len(j) <= Len(k)

\* the GCP of a GTIN of at most 14 digits has been asked for with a table loaded
GcpAsked ==
    /\ ret.op = "gcp"
    /\ pl_cache # None
    /\ cache_str # None
    /\ Len(cache_str[1]) <= 14

\* C6 (as claimed): the GCP length L is the table value of the longest key
\* that positions 1..12 of the 14-character rendering start with, and gcp
\* is the L characters from position 1 of that rendering.
C6_LongestPrefixMatch ==
    (GcpAsked /\ MatchingKeys # {})
        => /\ ret.err = "none"
           /\ ret.val = Some(SubSeq(Rendering14, 2, 1 + pl_cache[1][LongestKey]))

\* C7 (as claimed): when the longest matching key maps to length 0, gcp is
\* the empty string and no error is raised.
C7_ZeroLengthGivesEmpty ==
    (GcpAsked /\ MatchingKeys # {} /\ pl_cache[1][LongestKey] = 0)
        => (ret.err = "none" /\ ret.val = Some(<<>>))

\* C8 (as claimed): when no key of the table matches, gcp is the empty
\* string and no error is raised.
C8_MissingGivesEmpty ==
    (GcpAsked /\ MatchingKeys = {}) => (ret.err = "none" /\ ret.val = Some(<<>>))

\* C9 (as claimed): for a GTIN of length 8, 12, 13 or 14, indicator digit +
\* gcp + item reference + check digit, left-padded with zeros to length,
\* is the rendered string, and the check digit recomputed from the first
\* length - 1 characters of the rendered string is check_digit.
C9_Decomposition ==
    (ret.op = "tuple" /\ ret.err = "none" /\ obj[1].length \in {8, 12, 13, 14})
        => LET t == ret.val[1]
               parts == t[1] \o t[2] \o t[3] \o t[4]
               rendered == cache_str[1]
           IN  /\ Zeros(obj[1].length - Len(parts)) \o parts = rendered
               /\ t[4] = <<ModTenDigit(SubSeq(rendered, 1, obj[1].length - 1))>>

\* the errors that a failing fetch raises
NetworkErrors == {"HTTPError", "URLError", "TimeoutError", "ConnectionResetError"}

\* C11 (as claimed): whatever network failure the fetch of the prefix table
\* meets (timeout, unreachable host, HTTP error status, connection reset),
\* the load falls back to the local copy: the table is the one parsed from
\* it, the local copy is unchanged and no network error reaches the caller
\* of the GCP lookup.
C11_NetworkFailureFallsBack ==
    (ret.op = "gcp" /\ fetch.kind \in {"caught", "uncaught"} /\ local_file.ok)
        => /\ ret.err \notin NetworkErrors
           /\ local_file = LocalDocument
           /\ pl_cache = Some(LocalDocument.pl)

\* the complete documents: the local copy shipped and what the source serves
Documents == {LocalDocument} \cup {CollapseLineBreaks(r) : r \in RemoteDocuments}

\* C12 (as claimed): a differing fetched document replaces the local copy
\* atomically: in every interleaving of concurrent loads, and when a write
\* is interrupted, every read of the local copy yields a complete document,
\* the old one or a new one, never an empty or partly written text.
C12_AtomicReplace ==
    \A p \in Loaders :
        loads[p].local # None
            => (~loads[p].local[1].empty /\ loads[p].local[1] \in Documents)

\* the input modes that the arguments a supply: full code, raw code, components
ModesGiven(a) ==
    {m \in {"gtin", "raw", "components"} :
        \/ m = "gtin" /\ a.gtin # None
        \/ m = "raw" /\ a.raw # None
        \/ m = "components"
              /\ (a.indicator_digit # None \/ a.gcp # None \/ a.item_reference # None)}

\* C13 (as claimed): the input modes are mutually exclusive: a call that
\* supplies more than one of gtin, raw and the component fields ends with
\* an error and produces no GTIN.
C13_ModesExclusive ==
    (ret.op = "init" /\ Cardinality(ModesGiven(args)) > 1)
        => (ret.err # "none" /\ obj = None)

\* what the instance d gives to its readers: its length and, computed from
\* its data, its check digit and its rendered string
Observed(d) ==
    [length |-> d.length,
     check_digit |-> IF d.raw = None THEN None ELSE Some(get_check_digit(d.raw[1])),
     str |-> Render(d, IF d.raw = None THEN 0 ELSE get_check_digit(d.raw[1]))]

\* C14 (as claimed): a GTIN is immutable after construction: no operation
\* on a constructed instance, assigning its raw value or its length
\* included, changes its rendered string, its length or its check digit.
C14_Immutable == [][obj # None => Observed(obj'[1]) = Observed(obj[1])]_vars

\* C15 (as claimed): two GTINs are equal exactly when their rendered
\* strings are equal, equal GTINs have equal hashes, and GTINs of the same
\* numeric value but different lengths (a GTIN-8 and its zero-padded
\* GTIN-14) are unequal and have different hashes.
C15_EqualityByString ==
    ret.op = "eq"
        => LET r == ret.val[1]
           IN  /\ r.equal <=> (r.str[1] = r.str[2])
               /\ r.equal => (r.hash[1] = r.hash[2])
               /\ (r.len[1] # r.len[2]
                      /\ StripLeadingZeros(r.str[1]) = StripLeadingZeros(r.str[2]))
                     => (~r.equal /\ r.hash[1] # r.hash[2])

\* C16 (as claimed): for every constructed GTIN g, of any length and the
\* all-zero default included, GTIN(g) succeeds and has the rendered string
\* and the length of g.
C16_CopyConstruction ==
    ret.op = "copy"
        => /\ ret.err = "none"
           /\ ret.val[1].str = cache_str[1]
           /\ ret.val[1].length = obj[1].length

\* C17 (as claimed): GTIN(raw=x) for a floating-point x, as
\* GTIN(raw=123456789012.0), fails with a TypeError and produces no value.
C17_FloatRawRejected ==
    (ret.op = "init" /\ args.gtin = None /\ args.raw # None /\ args.raw[1].kind = "float")
        => (ret.err \in {"TypeError", "GTINTypeError"} /\ obj = None)

\* the errors that specialize GTINError (lines 17-39)
GTINErrors == {"GTINTypeError", "CheckDigitError", "IndicatorDigitError", "GCPNotFoundError"}

\* C18 (as claimed): every failure of the construction of a GTIN or of an
\* accessor is a GTINError: the outcome is a value or one of the errors
\* that specialize GTINError.
C18_ErrorsAreGTINErrors ==
    ret.op \in {"init", "len", "str", "check_digit", "indicator_digit"}
        => ret.err \in {"none"} \cup GTINErrors

\* the call gives components only, of which the gcp and the item reference
CallsComponents(a) ==
    /\ a.gtin = None
    /\ a.raw = None
    /\ a.gcp # None
    /\ a.item_reference # None
    /\ Len(Normalized(a.gcp[1])) + Len(Normalized(a.item_reference[1])) = 12

\* C19 (as claimed): in component form, an indicator digit other than "0"
\* with an explicit length other than 14 fails with IndicatorDigitError;
\* the default "0", supplied or omitted, is accepted with any explicit
\* length, and any single digit is accepted with length 14 or none.
C19_IndicatorDigitAndLength ==
    (ret.op = "init" /\ CallsComponents(args) /\ args.check_digit = None)
        => LET digit == IF args.indicator_digit = None THEN <<0>>
                        ELSE Normalized(args.indicator_digit[1])
               fourteen == args.length \in {None, Some(14)}
           IN  /\ (digit # <<0>> /\ ~fourteen) => ret.err = "IndicatorDigitError"
               /\ (digit = <<0>>) => ret.err = "none"
               /\ (Len(digit) = 1 /\ fourteen) => ret.err = "none"

\* the call gives, of the components, the gcp or the item reference or both
CallsParts(a) ==
    /\ a.gtin = None
    /\ a.raw = None
    /\ a.indicator_digit = None
    /\ a.check_digit = None
    /\ (a.gcp # None \/ a.item_reference # None)

\* C20 (as claimed): in component form the digits between indicator digit
\* and check digit total 12: a gcp and an item reference whose lengths do
\* not add up to 12 are rejected; of a gcp or an item reference given alone
\* the other is filled with zeros to 12 characters in all, and the
\* construction fails when that is impossible.
C20_TwelveDigits ==
    (ret.op = "init" /\ CallsParts(args))
        => LET g == IF args.gcp = None THEN <<>> ELSE Normalized(args.gcp[1])
               i == IF args.item_reference = None THEN <<>>
                    ELSE Normalized(args.item_reference[1])
           IN  IF args.gcp # None /\ args.item_reference # None
               THEN (ret.err = "none") <=> (Len(g) + Len(i) = 12)
               ELSE IF Len(g) + Len(i) > 12 THEN ret.err # "none"
               ELSE /\ ret.err = "none"
                    /\ obj[1].raw = Some(IntOfText(
                           <<0>> \o (IF args.gcp = None THEN Zeros(12 - Len(i)) ELSE g)
                                \o (IF args.item_reference = None THEN Zeros(12 - Len(g)) ELSE i)))

\* C21 (as claimed): a table load is all-or-nothing: when the fetched
\* document is malformed the load fails with a parse error and the local
\* copy is left as it was, so that a later load that finds the network
\* unavailable still succeeds from the local copy.
C21_LoadAllOrNothing ==
    /\ (ret.op = "gcp" /\ fetch.kind = "ok" /\ ~fetch.doc.ok)
          => (ret.err = "ParseError" /\ local_file = LocalDocument /\ pl_cache = None)
    /\ (ret.op = "gcp" /\ fetch.kind = "caught") => ret.err # "ParseError"

\* what a GTIN just built with the raw value and the length of d gives as
\* gcp, with the table that is loaded
FreshGcp(d) == get_gcp(d, Fresh, NoFetch)

\* C22 (as claimed): after any assignments to raw and length, interleaved
\* with reads, every read of str(), check_digit and gcp returns what a GTIN
\* just built with the current raw and length returns: no value memoised
\* for an earlier raw or length is served, lengths above 14 included.
C22_CacheCoherence ==
    /\ ret.op = "str" => ret.val = Some(Observed(obj[1]).str)
    /\ ret.op = "check_digit" => ret.val = Some(Observed(obj[1]).check_digit)
    /\ (ret.op = "gcp" /\ pl_cache # None)
          => (ret.err = FreshGcp(obj[1]).err /\ ret.val = FreshGcp(obj[1]).val)

\* the digit that a check_digit argument denotes once normalized
Denoted(a) == Normalized(a.check_digit[1])

\* a raw code of digits with a check_digit argument
GivesRawAndDigit(a) ==
    a.gtin = None /\ a.raw # None /\ a.check_digit # None /\ IsNumeric(a.raw[1])

\* a full code given as a number of two digits or more, with a check_digit
\* argument
GivesNumberAndDigit(a) ==
    a.gtin # None /\ a.check_digit # None /\ a.gtin[1].kind = "int"
        /\ ~a.gtin[1].neg /\ Len(a.gtin[1].s) >= 2

\* C23 (as claimed): check_digit is normalized like every other component:
\* a check digit given as an integer, or as a string with non-numeric
\* characters around the digit, that denotes the computed check digit is
\* accepted; and a check_digit given alongside a numeric full code is
\* validated, a wrong one being rejected rather than replaced by the last
\* digit of the code.
C23_CheckDigitNormalized ==
    /\ (ret.op = "init" /\ GivesRawAndDigit(args)
           /\ Denoted(args) = <<ModTenDigit(args.raw[1].s)>>)
          => (ret.err = "none" /\ obj # None)
    /\ (ret.op = "init" /\ GivesNumberAndDigit(args)
           /\ Denoted(args) # <<ModTenDigit(DropLast(args.gtin[1].s))>>
           /\ Denoted(args) # <<ModTenDigit(args.gtin[1].s)>>)
          => ret.err = "CheckDigitError"

\* C24 (as claimed): indicator_digit is the first character of the 14-digit
\* padded rendering for a GTIN of length 14, and the fixed default "0" for
\* every GTIN of a length under 14, whatever the first digit of its shorter
\* rendered code.
C24_IndicatorDigitAccessor ==
    (ret.op = "indicator_digit" /\ ret.err = "none")
        => /\ obj[1].length = 14
                 => ret.val = Some(<<Head(Padded(Observed(obj[1]).str))>>)
           /\ obj[1].length < 14 => ret.val = Some(<<0>>)

====
